---- MODULE Spec2Model ----
(***************************************************************************)
(* Model of profile_import.py: profile_detailed() imports seven modules in *)
(* a fixed order, times each import, prints a running log, then a summary  *)
(* table sorted by duration and a block of recommendations.                *)
(*                                                                         *)
(* Durations are wall-clock seconds; the model draws them from the whole   *)
(* seconds 0..MaxDur and computes percentages in exact integer arithmetic. *)
(* A printed percentage is kept in tenths of a percent (the ".1f" format). *)
(***************************************************************************)
EXTENDS Integers, Sequences, FiniteSets, TLC

VARIABLES pc, idx, results, total, out

vars == <<pc, idx, results, total, out>>

\* Largest import duration, in seconds, that a probe may measure.
MaxDur == 3

\* How many times the summary sort is re-applied when checking idempotence.
MaxSorts == 3

Durations == 0..MaxDur

\* The probes in program order.  guard is the text printed by the except
\* clause of the probe, or "none" when the import has no try/except.
Probes ==
    << [name |-> "numpy",              guard |-> "none"],
       [name |-> "ipywidgets",         guard |-> "not installed"],
       [name |-> "pandas",             guard |-> "not installed"],
       [name |-> "geopandas",          guard |-> "not installed"],
       [name |-> "rasterio",           guard |-> "not installed"],
       [name |-> "leafmap (base)",     guard |-> "error"],
       [name |-> "leafmap.maplibregl", guard |-> "error"] >>

NumProbes == Len(Probes)

\* `if duration > 2`
Threshold == 2

\* One printed line (or block) of standard output.
Line(kind, name, dur, pct, bar) ==
    [kind |-> kind, name |-> name, dur |-> dur, pct |-> pct, bar |-> bar]

Plain(kind) == Line(kind, "", 0, 0, 0)

-----------------------------------------------------------------------------
(* Pure helpers *)

\* results.sort(key=lambda x: x[1], reverse=True): a stable sort, so an
\* element goes after every element whose duration is >= its own.
InsertDescBeforeTies(x, s) ==
    LET less == {j \in 1..Len(s) : s[j][2] <= x[2]}
        pos  == IF less = {} THEN Len(s) + 1
                ELSE CHOOSE j \in less : \A k \in less : j <= k
    IN  SubSeq(s, 1, pos - 1) \o <<x>> \o SubSeq(s, pos, Len(s))

InsertDesc(x, s) ==
    LET less == {j \in 1..Len(s) : s[j][2] < x[2]}
        pos  == IF less = {} THEN Len(s) + 1
                ELSE CHOOSE j \in less : \A k \in less : j <= k
    IN  SubSeq(s, 1, pos - 1) \o <<x>> \o SubSeq(s, pos, Len(s))

RECURSIVE SortDesc(_)
SortDesc(s) ==
    IF s = <<>> THEN <<>>
    ELSE InsertDesc(s[Len(s)], SortDesc(SubSeq(s, 1, Len(s) - 1)))

\* sum(t for _, t in results)
RECURSIVE SumDur(_)
SumDur(s) == IF s = <<>> THEN 0 ELSE s[1][2] + SumDur(Tail(s))

\* n / m rounded to the nearest integer, ties to even (float formatting).
RoundHalfEven(n, m) ==
    LET q == n \div m
        r == n % m
    IN  IF 2 * r < m THEN q
        ELSE IF 2 * r > m THEN q + 1
        ELSE IF q % 2 = 0 THEN q ELSE q + 1

\* pct = (duration / total) * 100 if total > 0 else 0, as printed by
\* {pct:5.1f}: the value in tenths of a percent.
PctFloorTenths(duration, tot) ==
    IF tot > 0 THEN (duration * 1000) \div tot ELSE 0

PctTenths(duration, tot) ==
    IF tot > 0 THEN RoundHalfEven(duration * 1000, tot) ELSE 0

\* bar = "#" * int(pct / 2): the number of glyphs.
BarLenWhole(duration, tot) ==
    IF tot > 0 THEN (duration * 100) \div tot ELSE 0

BarLen(duration, tot) ==
    IF tot > 0 THEN (duration * 100) \div (2 * tot) ELSE 0

\* `frag in name`
ContainsWhole(name, frag) == name = frag

Contains(name, frag) ==
    \E i \in 1..(Len(name) - Len(frag) + 1) :
        SubSeq(name, i, i + Len(frag) - 1) = frag

\* The if/elif chain choosing the explanatory sentence.
Explain(name) ==
    IF Contains(name, "geopandas") THEN <<Line("explain", "geopandas", 0, 0, 0)>>
    ELSE IF Contains(name, "leafmap") THEN <<Line("explain", "leafmap", 0, 0, 0)>>
    ELSE IF Contains(name, "rasterio") THEN <<Line("explain", "rasterio", 0, 0, 0)>>
    ELSE <<>>

\* `if duration > 2`
OverThresholdInclusive(duration) == duration >= Threshold

OverThreshold(duration) == duration > Threshold

\* slowest = results[0] if results else None, and the warning it leads to.
Advice(res) ==
    IF res = <<>> THEN <<>>
    ELSE LET name     == res[1][1]
             duration == res[1][2]
         IN  IF OverThreshold(duration)
             THEN <<Line("warning", name, duration, 0, 0)>> \o Explain(name)
             ELSE <<>>

\* The table rows printed by the for loop over the sorted results.
Rows(res, tot) ==
    [i \in 1..Len(res) |->
        Line("row", res[i][1], res[i][2],
             PctTenths(res[i][2], tot), BarLen(res[i][2], tot))]

-----------------------------------------------------------------------------
(* The program *)

Init ==
    /\ pc = "start"
    /\ idx = 1
    /\ results = <<>>
    /\ total = 0
    /\ out = <<>>

\* The banner and `results = []`.
Start ==
    /\ pc = "start"
    /\ out' = Append(out, Plain("banner"))
    /\ results' = <<>>
    /\ pc' = "announce"
    /\ UNCHANGED <<idx, total>>

\* print("Importing <name>...", end=" ", flush=True); start = perf_counter()
Announce ==
    /\ pc = "announce"
    /\ out' = Append(out, Line("importing", Probes[idx].name, 0, 0, 0))
    /\ pc' = "load"
    /\ UNCHANGED <<idx, results, total>>

\* Control after a probe that did not raise out of the function.
NextProbeSkipping(i) == IF i + 1 < NumProbes THEN i + 2 ELSE i + 1

NextProbe(i) == i + 1

Advance ==
    IF idx < NumProbes
    THEN /\ idx' = NextProbe(idx)
         /\ pc' = "announce"
    ELSE /\ idx' = idx
         /\ pc' = "summary"

\* What a successful probe records.
RecordFront(res, name, elapsed) == <<<<name, elapsed>>>> \o res

Record(res, name, elapsed) == Append(res, <<name, elapsed>>)

\* The import succeeds: elapsed is measured, appended and printed.
LoadOk(elapsed) ==
    /\ pc = "load"
    /\ results' = Record(results, Probes[idx].name, elapsed)
    /\ out' = Append(out, Line("elapsed", Probes[idx].name, elapsed, 0, 0))
    /\ Advance
    /\ UNCHANGED total

\* The import raises ImportError: the except clause prints the failure and
\* the function goes on; without a try/except the exception leaves
\* profile_detailed and the interpreter exits with a traceback.
LoadImportError ==
    /\ pc = "load"
    /\ IF Probes[idx].guard = "none"
       THEN /\ pc' = "crashed"
            /\ UNCHANGED <<idx, out>>
       ELSE /\ out' = Append(out, Line(Probes[idx].guard, Probes[idx].name, 0, 0, 0))
            /\ Advance
    /\ UNCHANGED <<results, total>>

\* The summary: header, in-place sort, total, one row per result, TOTAL line.
Summarize ==
    /\ pc = "summary"
    /\ results' = SortDesc(results)
    /\ total' = SumDur(results')
    /\ out' = out \o <<Plain("summary_header")>>
                  \o Rows(results', total')
                  \o <<Line("total", "TOTAL", total', 0, 0)>>
    /\ pc' = "recommend"
    /\ UNCHANGED idx

\* The recommendations header and the slowest-module warning.
Recommend ==
    /\ pc = "recommend"
    /\ out' = out \o <<Plain("rec_header")>> \o Advice(results)
    /\ pc' = "tips"
    /\ UNCHANGED <<idx, results, total>>

\* The tips block, after which profile_detailed returns.
Tips ==
    /\ pc = "tips"
    /\ out' = Append(out, Plain("tips"))
    /\ pc' = "done"
    /\ UNCHANGED <<idx, results, total>>

Next ==
    \/ Start
    \/ Announce
    \/ \E elapsed \in Durations : LoadOk(elapsed)
    \/ LoadImportError
    \/ Summarize
    \/ Recommend
    \/ Tips

Spec == Init /\ [][Next]_vars

-----------------------------------------------------------------------------
(* Observations of the output used by the properties below *)

IsImporting(l) == l.kind = "importing"
IsElapsed(l)   == l.kind = "elapsed"
IsFailure(l)   == l.kind \in {"not installed", "error"}
IsRow(l)       == l.kind = "row"
IsWarning(l)   == l.kind = "warning"
IsExplain(l)   == l.kind = "explain"
IsTips(l)      == l.kind = "tips"

Announced == SelectSeq(out, IsImporting)
Timed     == SelectSeq(out, IsElapsed)
Failures  == SelectSeq(out, IsFailure)
TableRows == SelectSeq(out, IsRow)
Warnings  == SelectSeq(out, IsWarning)
Explains  == SelectSeq(out, IsExplain)

NamesOf(s) == {s[i].name : i \in 1..Len(s)}

\* Position of a module in the fixed probe list.
ProbePosition ==
    [n \in {Probes[i].name : i \in 1..NumProbes} |->
        CHOOSE i \in 1..NumProbes : Probes[i].name = n]

ProbeIndex(name) == ProbePosition[name]

Terminated  == pc \in {"done", "crashed"}
Summarized  == pc \in {"recommend", "tips", "done"}
Recommended == pc \in {"tips", "done"}

RECURSIVE SumField(_)
SumField(s) == IF s = <<>> THEN 0 ELSE s[1] + SumField(Tail(s))

Abs(n) == IF n < 0 THEN -n ELSE n

\* Position of a line in the fixed stage order of the output: the banner,
\* then for probe p its announcement (2p - 1) and its result (2p), then the
\* summary header, the rows, the TOTAL line, the recommendations header,
\* the warning, the explanatory sentence and the tips block.
BlockStage ==
    [k \in {"banner", "summary_header", "row", "total", "rec_header",
            "warning", "explain", "tips"} |->
        CASE k = "banner"         -> 0
          [] k = "summary_header" -> 2 * NumProbes + 1
          [] k = "row"            -> 2 * NumProbes + 2
          [] k = "total"          -> 2 * NumProbes + 3
          [] k = "rec_header"     -> 2 * NumProbes + 4
          [] k = "warning"        -> 2 * NumProbes + 5
          [] k = "explain"        -> 2 * NumProbes + 6
          [] k = "tips"           -> 2 * NumProbes + 7]

Stage(l) ==
    IF l.kind = "importing" THEN 2 * ProbePosition[l.name] - 1
    ELSE IF l.kind \in {"elapsed", "not installed", "error"}
         THEN 2 * ProbePosition[l.name]
    ELSE BlockStage[l.kind]

\* The summary sort applied n times.
RECURSIVE SortTimes(_, _)
SortTimes(s, n) == IF n = 0 THEN s ELSE SortTimes(SortDesc(s), n - 1)

-----------------------------------------------------------------------------
(* C1 *)

\* C1: whatever the load outcomes of the seven probes, the run never ends
\* early: when it has ended, all seven probes were attempted, the tips block
\* is the last thing printed and the exit is the normal one.
C1_AlwaysReachesTips ==
    Terminated =>
        /\ pc = "done"
        /\ Len(Announced) = NumProbes
        /\ out /= <<>> /\ IsTips(out[Len(out)])

(* C2 *)

\* C2: when the run has ended, failure lines plus summary rows equal the
\* number of probes attempted, each attempted probe has exactly one of a
\* failure line or a summary row, and a completed run attempted seven.
C2_OneOutcomePerProbe ==
    Terminated =>
        /\ Len(Failures) + Len(TableRows) = Len(Announced)
        /\ \A i \in 1..Len(Announced) :
              Cardinality({j \in 1..Len(out) :
                             /\ IsFailure(out[j]) \/ IsRow(out[j])
                             /\ out[j].name = Announced[i].name}) = 1
        /\ pc = "done" => Len(Announced) = NumProbes

(* C3 *)

\* C3: when the summary begins (before the sort), results is exactly the
\* successfully loaded probes in probe order with the durations printed for
\* them; a failed probe has a failure line and no entry, a loaded probe has
\* one entry and no failure line, and no name occurs twice.
C3_ResultsAreLoadedProbesInOrder ==
    pc = "summary" =>
        LET timed    == Timed
            failures == Failures
            failed   == NamesOf(failures)
        IN  /\ Len(results) = Len(timed)
            /\ \A i \in 1..Len(results) :
                  results[i] = <<timed[i].name, timed[i].dur>>
            /\ \A i, j \in 1..Len(results) :
                  i < j => ProbeIndex(results[i][1]) < ProbeIndex(results[j][1])
            /\ \A p \in 1..NumProbes :
                  LET inResults == \E i \in 1..Len(results) :
                                      results[i][1] = Probes[p].name
                  IN  /\ inResults \/ Probes[p].name \in failed
                      /\ ~(inResults /\ Probes[p].name \in failed)
            /\ Len(failures) = Cardinality(failed)

C3_Witness ==
    /\ pc = "summary"
    /\ Len(results) = 4
    /\ Len(Failures) = 3
    /\ \E i, j \in 1..Len(out) :
          i < j /\ IsFailure(out[i]) /\ IsElapsed(out[j])

(* C4 *)

\* C4: the summary rows are the collected measurements, each once, in
\* descending order of duration, and rows of equal duration are in probe
\* order.
C4_RowsSortedDescendingStable ==
    Summarized =>
        LET timed == Timed
            rows  == TableRows
        IN  /\ Len(rows) = Len(timed)
            /\ \A i \in 1..Len(timed) :
                  Cardinality({j \in 1..Len(rows) :
                                 /\ rows[j].name = timed[i].name
                                 /\ rows[j].dur = timed[i].dur}) = 1
            /\ \A i, j \in 1..Len(rows) :
                  i < j =>
                     /\ rows[i].dur >= rows[j].dur
                     /\ rows[i].dur = rows[j].dur =>
                           ProbeIndex(rows[i].name) < ProbeIndex(rows[j].name)

C4_Witness ==
    /\ pc = "done"
    /\ LET rows == TableRows
       IN  \E i, j, k \in 1..Len(rows) :
              /\ i < j /\ j < k
              /\ rows[i].dur = rows[j].dur
              /\ rows[j].dur > rows[k].dur
    /\ LET timed == Timed
       IN  \E i, j \in 1..Len(timed) : i < j /\ timed[i].dur < timed[j].dur

(* C5 *)

\* C5: the TOTAL line is the sum of the recorded durations; with total > 0
\* each printed percentage is duration / total * 100 rounded to the nearest
\* tenth and the printed percentages sum to 100 within 0.5; with total = 0
\* every percentage is 0 and the run goes on to the TOTAL line.
C5_PercentagesOfTotal ==
    Summarized =>
        LET printedTotal == SelectSeq(out, LAMBDA l : l.kind = "total")
            timed == Timed
            rows == TableRows
            tot == SumField([i \in 1..Len(timed) |-> timed[i].dur])
            pcts == [i \in 1..Len(rows) |-> rows[i].pct]
        IN  /\ Len(printedTotal) = 1
            /\ printedTotal[1].dur = tot
            /\ total = tot
            /\ tot > 0 =>
                  /\ \A i \in 1..Len(rows) :
                        2 * Abs(rows[i].pct * tot - 1000 * rows[i].dur) <= tot
                  /\ Abs(SumField(pcts) - 1000) <= 5
            /\ tot = 0 => \A i \in 1..Len(rows) : rows[i].pct = 0

C5_Witness ==
    /\ pc = "done"
    /\ total > 0
    /\ LET rows == TableRows
       IN  /\ Len(rows) >= 3
           /\ SumField([i \in 1..Len(rows) |-> rows[i].pct]) /= 1000

(* C6 *)

C7_ExplanationBySlowestName ==
    Recommended =>
        /\ Len(Explains) <= 1
        /\ \A j \in 1..Len(out) :
              IsExplain(out[j]) => j > 1 /\ IsWarning(out[j - 1])
        /\ \A j \in 1..Len(out) :
              IsWarning(out[j]) =>
                 LET after == IF j < Len(out) THEN out[j + 1] ELSE Plain("none")
                     sentence == IF IsExplain(after) THEN after.name ELSE "none"
                 IN  sentence =
                        CASE out[j].name = "geopandas"          -> "geopandas"
                          [] out[j].name = "leafmap (base)"     -> "leafmap"
                          [] out[j].name = "leafmap.maplibregl" -> "leafmap"
                          [] out[j].name = "rasterio"           -> "rasterio"
                          [] out[j].name \in {"numpy", "ipywidgets", "pandas"} -> "none"

C7_Witness ==
    /\ pc = "done"
    /\ Len(Warnings) = 1
    /\ Warnings[1].name = "leafmap (base)"
    /\ Len(Explains) = 1
    /\ Explains[1].name = "leafmap"

(* C8 *)

\* C8: the output of every run that has ended follows the fixed stage
\* order: each probe's announcement, directly followed by its result, then
\* the next probe's announcement; all probe results before the summary
\* rows; rows and the TOTAL line before the recommendations; the tips block
\* last.  Only the rows stage has more than one line, no stage is entered
\* again after a later one, and a completed run has every stage of all
\* seven probes.
C8_FixedStageOrder ==
    Terminated =>
        LET stages == [j \in 1..Len(out) |-> Stage(out[j])]
            seen   == {stages[j] : j \in 1..Len(out)}
        IN  /\ \A j \in 1..(Len(out) - 1) :
                  /\ stages[j] <= stages[j + 1]
                  /\ stages[j] = stages[j + 1] => IsRow(out[j]) /\ IsRow(out[j + 1])
            /\ \A j \in 1..Len(out) :
                  (stages[j] \in 1..(2 * NumProbes) /\ stages[j] % 2 = 0)
                     => stages[j - 1] = stages[j] - 1
            /\ \A p \in 1..NumProbes :
                  (\E st \in seen : st > 2 * p) => 2 * p \in seen
            /\ pc = "done" =>
                  /\ 0..(2 * NumProbes + 1) \subseteq seen
                  /\ {2 * NumProbes + 3, 2 * NumProbes + 4, 2 * NumProbes + 7}
                        \subseteq seen
                  /\ IsTips(out[Len(out)])

C8_Witness ==
    /\ pc = "done"
    /\ Len(Failures) >= 2
    /\ Len(TableRows) >= 2
    /\ Len(Warnings) = 1
    /\ Len(Explains) = 1

(* C9 *)

\* C9: sorting the collected sequence once or several times gives the same
\* sequence, so the entry the recommendation step takes first, and the
\* advice it prints, do not depend on how often the summary sort ran; the
\* sequence the program sorted is itself unchanged by a further sort.
C9_SortIdempotent ==
    /\ pc = "summary" =>
          LET once == SortDesc(results)
          IN  \A n \in 1..MaxSorts :
                 LET again == SortTimes(once, n - 1)
                 IN  /\ again = once
                     /\ once /= <<>> => again[1] = once[1]
                     /\ Advice(again) = Advice(once)
    /\ Summarized => SortDesc(results) = results

C9_Witness ==
    /\ pc = "summary"
    /\ SortDesc(results) /= results
    /\ \E i, j \in 1..Len(results) :
          /\ i < j
          /\ results[i][2] = results[j][2]
          /\ \A k \in 1..Len(results) : results[k][2] <= results[i][2]

(* C10 *)

\* C10: every row's bar has floor(percentage / 2) glyphs, between 0 and 50,
\* bar lengths do not increase down the table, and with total = 0 every
\* bar is empty.
C10_BarLengths ==
    Summarized =>
        LET rows == TableRows
        IN  /\ \A i \in 1..Len(rows) :
                  /\ rows[i].bar \in 0..50
                  /\ total > 0 =>
                        /\ 2 * total * rows[i].bar <= 100 * rows[i].dur
                        /\ 100 * rows[i].dur < 2 * total * (rows[i].bar + 1)
                  /\ total = 0 => rows[i].bar = 0
            /\ \A i, j \in 1..Len(rows) :
                  i < j => rows[i].bar >= rows[j].bar

C10_Witness ==
    /\ pc = "done"
    /\ total > 0
    /\ LET rows == TableRows
       IN  \E i, j \in 1..Len(rows) :
              /\ i < j
              /\ rows[i].bar > rows[j].bar
              /\ rows[j].bar > 0
              /\ (100 * rows[j].dur) % (2 * total) /= 0

====
